---- MODULE Spec2Model ----
(***************************************************************************)
(* egs/washington/steps/train_ctc.py: the best-CER checkpoint hook, the    *)
(* early-stop triggers the script installs, the epoch loop that drives     *)
(* them and the save after training.                                       *)
(*                                                                         *)
(* Character error rates are kept in units of 1/1000 (45 is 0.045), so the *)
(* comparisons of the hook and of the standard-deviation trigger are exact *)
(* integer comparisons.  Model and optimizer state are version counters:   *)
(* every training pass produces a new version of both.                     *)
(***************************************************************************)
EXTENDS Integers, Sequences, FiniteSets

\* ---------------------------------------------------------------- bounds
\* No new epoch is started once this many epochs have completed.
EpochCap == 5
\* --max_epochs is drawn from 0..MaxEpochsArg (0 stands for None and for 0).
MaxEpochsArg == 3

\* float('inf') of SaveModelCheckpointHook.__init__: above every CER value.
Inf == 1000000

\* The CER values one validation pass may produce (thousandths).
Values == {40, 45, 50, 200, 500}
\* --valid_cer_std_window_size (0: not given) and --valid_cer_std_threshold
\* (thousandths; 0: not given).
WindowSizes == {0, 2, 3}
Thresholds == {0, 5, 10}

VARIABLES
    args,       \* the parsed command line
    pc,         \* the script: "run", "save", "done", "crashed"
    state,      \* the engine: "IDLE", "RUNNING", "STOPPED", "EXHAUSTED"
    phase,      \* inside an epoch: "train", "valid", "hooks", "trigger"
    epochs,     \* trainer.epochs, the completed-epoch counter
    weights,    \* live model and optimizer state (version counters)
    meter,      \* engine_wrapper.valid_cer.value
    cers,       \* every value the meter has taken, oldest first
    lowest,     \* SaveModelCheckpointHook._lowest
    hookSeen,   \* the meter values read by the hook, one per invocation
    hookIdx,    \* next epoch-end hook to run
    files,      \* the file system: path -> contents
    window,     \* MeterStandardDeviation's kept values
    fired,      \* members of the composite that returned True when last called
    trigEvals   \* number of evaluations of the composite

vars == <<args, pc, state, phase, epochs, weights, meter, cers, lowest,
          hookSeen, hookIdx, files, window, fired, trigEvals>>

\* ------------------------------------------------------------- helpers
RECURSIVE Sum(_)
Sum(s) == IF s = <<>> THEN 0 ELSE Head(s) + Sum(Tail(s))

RECURSIVE SumSq(_)
SumSq(s) == IF s = <<>> THEN 0 ELSE Head(s) * Head(s) + SumSq(Tail(s))

\* The last n elements of s (all of s when it is shorter).
LastN(s, n) == IF Len(s) <= n THEN s ELSE SubSeq(s, Len(s) - n + 1, Len(s))

\* A path is a sequence of string pieces (the empty path is the empty string);
\* a file is absent (<<>>) or holds one record.
Absent == <<>>
\* What an earlier run of the script may have left at a path.
Stale == <<[model |-> -1, optimizer |-> -1, complete |-> TRUE]>>

\* {'model': model.state_dict(), 'optimizer': optimizer.state_dict()}
StateDicts == [model |-> weights.model, optimizer |-> weights.optimizer]

\* torch.save(obj, filename) that returns: the file holds obj.
Saved(obj) == <<[model |-> obj.model, optimizer |-> obj.optimizer,
                 complete |-> TRUE]>>

\* torch.save(obj, filename) that raises: the file was never opened and is
\* as before, or it was opened and holds a truncated record.
SaveFailed(old, obj) ==
    {old, <<[model |-> obj.model, optimizer |-> obj.optimizer,
             complete |-> FALSE]>>}

\* ------------------------------------------------------------ the script
\* add_argument('--save_checkpoint', default='model.ckpt'); '' disables it.
SavePaths == {<<>>, <<"model.ckpt">>}

\* filename_va = args.save_checkpoint + '-valid-lowest-cer'
\* (variant: the suffix is left off, so both saves go to one path)
filename_va_same == args.save_checkpoint
filename_va == args.save_checkpoint \o <<"-valid-lowest-cer">>

\* The files the script can write.
Paths == {p \in SavePaths : p # <<>>}
         \cup {p \o <<"-valid-lowest-cer">> : p \in SavePaths \ {<<>>}}

\* (variant: the second block assigns the list instead of appending to it)
early_stop_triggers_replace ==
    IF args.valid_cer_std_window_size # 0 /\ args.valid_cer_std_threshold # 0
    THEN <<"MeterStandardDeviation">>
    ELSE IF args.max_epochs # 0 /\ args.max_epochs > 0
         THEN <<"NumEpochs">> ELSE <<>>
\* (variant: the MeterStandardDeviation block is missing)
early_stop_triggers_numonly ==
    IF args.max_epochs # 0 /\ args.max_epochs > 0
    THEN <<"NumEpochs">> ELSE <<>>
\* (variant: NumEpochs is installed only when no window size is given)
early_stop_triggers_window_only ==
    (IF args.max_epochs # 0 /\ args.max_epochs > 0
        /\ args.valid_cer_std_window_size = 0
     THEN <<"NumEpochs">> ELSE <<>>)
    \o
    (IF args.valid_cer_std_window_size # 0 /\ args.valid_cer_std_threshold # 0
     THEN <<"MeterStandardDeviation">> ELSE <<>>)
\* early_stop_triggers, as appended to by the two "Configure ..." blocks.
early_stop_triggers ==
    (IF args.max_epochs # 0 /\ args.max_epochs > 0
     THEN <<"NumEpochs">> ELSE <<>>)
    \o
    (IF args.valid_cer_std_window_size # 0 /\ args.valid_cer_std_threshold # 0
     THEN <<"MeterStandardDeviation">> ELSE <<>>)

\* (variant: the hook is never registered)
epoch_end_hooks_none == <<>>
\* trainer.add_hook(trainer.ON_EPOCH_END, SaveModelCheckpointHook(...)) under
\* "if args.save_checkpoint".
epoch_end_hooks ==
    IF args.save_checkpoint # <<>> THEN <<"SaveModelCheckpointHook">> ELSE <<>>

\* ------------------------------------------------- SaveModelCheckpointHook
\* (variants: <= for <, and the operands exchanged)
Improves_le(value, low) == value <= low
Improves_flipped(value, low) == low < value
\* if self._meter.value < self._lowest
Improves(value, low) == value < low

\* (variant: __call__ catches the exception of torch.save and drops it)
SaveModelCheckpointHook_swallow(raised) ==
    /\ hookSeen' = Append(hookSeen, meter)
    /\ pc' = pc
    /\ IF meter < lowest
       THEN /\ lowest' = meter
            /\ IF raised
               THEN \E f \in SaveFailed(files[filename_va], StateDicts) :
                       files' = [files EXCEPT ![filename_va] = f]
               ELSE files' = [files EXCEPT ![filename_va] = Saved(StateDicts)]
       ELSE /\ ~raised
            /\ UNCHANGED <<lowest, files>>

\* SaveModelCheckpointHook.__call__: it returns, or torch.save raises
\* (raised = TRUE) after self._lowest has been assigned and the exception
\* leaves the hook.
SaveModelCheckpointHook(raised) ==
    /\ hookSeen' = Append(hookSeen, meter)
    /\ pc' = IF raised THEN "crashed" ELSE pc
    /\ IF Improves(meter, lowest)
       THEN /\ lowest' = meter
            /\ IF raised
               THEN \E f \in SaveFailed(files[filename_va], StateDicts) :
                       files' = [files EXCEPT ![filename_va] = f]
               ELSE files' = [files EXCEPT ![filename_va] = Saved(StateDicts)]
       ELSE /\ ~raised
            /\ UNCHANGED <<lowest, files>>

\* --------------------------------------------------------------- triggers
\* NumEpochs(trainer, num_epochs)()
NumEpochs == epochs >= args.max_epochs

\* The trigger's window after it has read value v: FIFO, at most
\* num_values_to_keep long, oldest evicted first.
WindowPush(w, v) == LastN(Append(w, v), args.valid_cer_std_window_size)

\* sample standard deviation of w <= t, for Len(w) >= 2:
\*   sum (x - mean)^2 / (n - 1) <= t^2
\*   <=>  n * sum x^2 - (sum x)^2 <= t^2 * n * (n - 1)
StdAtMost(w, t) ==
    Len(w) * SumSq(w) - Sum(w) * Sum(w) <= t * t * Len(w) * (Len(w) - 1)

\* MeterStandardDeviation(meter, threshold, num_values_to_keep)(), on the
\* window that already holds the meter's current value.
MeterStandardDeviation(w) ==
    /\ Len(w) >= args.valid_cer_std_window_size
    /\ StdAtMost(w, args.valid_cer_std_threshold)

\* The members of a list of triggers that return True when called.
Firing(triggers, w) ==
    {triggers[i] : i \in {j \in 1..Len(triggers) :
        IF triggers[j] = "NumEpochs" THEN NumEpochs
        ELSE MeterStandardDeviation(w)}}

\* Any(*triggers)(), given the members that returned True.
Any(firing) == firing # {}

\* ----------------------------------------------------------------- state
Init ==
    /\ args \in [max_epochs : 0..MaxEpochsArg,
                 valid_cer_std_window_size : WindowSizes,
                 valid_cer_std_threshold : Thresholds,
                 save_checkpoint : SavePaths]
    /\ pc = "run"
    /\ state = "IDLE"
    /\ phase = "train"
    /\ epochs = 0
    /\ weights = [model |-> 0, optimizer |-> 0]
    /\ meter = 0
    /\ cers = <<>>
    /\ lowest = Inf
    /\ hookSeen = <<>>
    /\ hookIdx = 1
    /\ \E old \in {Absent, Stale} : files = [p \in Paths |-> old]
    /\ window = <<>>
    /\ fired = {}
    /\ trigEvals = 0

\* ---------------------------------------------------------------- engine
\* engine_wrapper.run() is entered.
Run ==
    /\ pc = "run" /\ state = "IDLE"
    /\ state' = "RUNNING"
    /\ phase' = "train"
    /\ UNCHANGED <<args, pc, epochs, weights, meter, cers, lowest, hookSeen,
                   hookIdx, files, window, fired, trigEvals>>

\* One pass over the training loader: model and optimizer move on.
TrainPass ==
    /\ pc = "run" /\ state = "RUNNING" /\ phase = "train"
    /\ epochs < EpochCap
    /\ weights' = [model |-> weights.model + 1,
                   optimizer |-> weights.optimizer + 1]
    /\ phase' = "valid"
    /\ UNCHANGED <<args, pc, state, epochs, meter, cers, lowest, hookSeen,
                   hookIdx, files, window, fired, trigEvals>>

\* A forward/backward pass raises: the exception leaves run().
TrainPassRaises ==
    /\ pc = "run" /\ state = "RUNNING" /\ phase = "train"
    /\ epochs < EpochCap
    /\ pc' = "crashed"
    /\ UNCHANGED <<args, state, phase, epochs, weights, meter, cers, lowest,
                   hookSeen, hookIdx, files, window, fired, trigEvals>>

\* One pass over the validation loader: the meter takes the epoch's CER and
\* the epoch is complete.
ValidPass ==
    /\ pc = "run" /\ state = "RUNNING" /\ phase = "valid"
    /\ \E v \in Values :
          /\ meter' = v
          /\ cers' = Append(cers, v)
    /\ epochs' = epochs + 1
    /\ phase' = "hooks"
    /\ hookIdx' = 1
    /\ UNCHANGED <<args, pc, state, weights, lowest, hookSeen, files, window,
                   fired, trigEvals>>

\* The next ON_EPOCH_END hook, in registration order, returns.
EpochEndHook ==
    /\ pc = "run" /\ state = "RUNNING" /\ phase = "hooks"
    /\ hookIdx <= Len(epoch_end_hooks)
    /\ epoch_end_hooks[hookIdx] = "SaveModelCheckpointHook"
    /\ SaveModelCheckpointHook(FALSE)
    /\ hookIdx' = hookIdx + 1
    /\ UNCHANGED <<args, state, phase, epochs, weights, meter, cers,
                   window, fired, trigEvals>>

\* The next ON_EPOCH_END hook raises: the exception leaves run().
EpochEndHookRaises ==
    /\ pc = "run" /\ state = "RUNNING" /\ phase = "hooks"
    /\ hookIdx <= Len(epoch_end_hooks)
    /\ epoch_end_hooks[hookIdx] = "SaveModelCheckpointHook"
    /\ SaveModelCheckpointHook(TRUE)
    /\ UNCHANGED <<args, state, phase, epochs, weights, meter, cers, hookIdx,
                   window, fired, trigEvals>>

\* (variant: the composite is called but its answer does not halt the
\* engine before the epoch cap)
EarlyStop_continue ==
    /\ pc = "run" /\ state = "RUNNING" /\ phase = "hooks"
    /\ hookIdx > Len(epoch_end_hooks)
    /\ LET w == IF \E i \in 1..Len(early_stop_triggers) :
                      early_stop_triggers[i] = "MeterStandardDeviation"
                THEN WindowPush(window, meter) ELSE window
       IN /\ window' = w
          /\ fired' = Firing(early_stop_triggers, w)
    /\ IF epochs >= EpochCap
       THEN state' = "STOPPED" /\ phase' = "end" /\ pc' = "save"
       ELSE state' = "RUNNING" /\ phase' = "train" /\ pc' = pc
    /\ trigEvals' = trigEvals + 1
    /\ UNCHANGED <<args, epochs, weights, meter, cers, lowest, hookSeen,
                   hookIdx, files>>

\* After the hooks the early-stop composite is called once; True halts.
EarlyStop ==
    /\ pc = "run" /\ state = "RUNNING" /\ phase = "hooks"
    /\ hookIdx > Len(epoch_end_hooks)
    /\ LET w == IF \E i \in 1..Len(early_stop_triggers) :
                      early_stop_triggers[i] = "MeterStandardDeviation"
                THEN WindowPush(window, meter) ELSE window
           f == Firing(early_stop_triggers, w)
       IN /\ window' = w
          /\ fired' = f
          /\ IF Any(f)
             THEN /\ state' = "STOPPED"
                  /\ phase' = "end"
                  /\ pc' = "save"
             ELSE /\ state' = "RUNNING"
                  /\ phase' = "train"
                  /\ pc' = pc
    /\ trigEvals' = trigEvals + 1
    /\ UNCHANGED <<args, epochs, weights, meter, cers, lowest, hookSeen,
                   hookIdx, files>>

\* ------------------------------------------------- save after training
\* (variant: the script ends without the torch.save after training)
SaveAfterTraining_skip ==
    /\ pc = "save"
    /\ pc' = "done"
    /\ UNCHANGED <<args, state, phase, epochs, weights, meter, cers, lowest,
                   hookSeen, hookIdx, files, window, fired, trigEvals>>

\* if args.save_checkpoint: torch.save({...}, args.save_checkpoint)
SaveAfterTraining ==
    /\ pc = "save"
    /\ IF args.save_checkpoint # <<>>
       THEN files' = [files EXCEPT ![args.save_checkpoint] = Saved(StateDicts)]
       ELSE files' = files
    /\ pc' = "done"
    /\ UNCHANGED <<args, state, phase, epochs, weights, meter, cers, lowest,
                   hookSeen, hookIdx, window, fired, trigEvals>>

\* The torch.save after training raises.
SaveAfterTrainingRaises ==
    /\ pc = "save"
    /\ args.save_checkpoint # <<>>
    /\ \E f \in SaveFailed(files[args.save_checkpoint], StateDicts) :
          files' = [files EXCEPT ![args.save_checkpoint] = f]
    /\ pc' = "crashed"
    /\ UNCHANGED <<args, state, phase, epochs, weights, meter, cers, lowest,
                   hookSeen, hookIdx, window, fired, trigEvals>>

Next ==
    \/ Run
    \/ TrainPass
    \/ TrainPassRaises
    \/ ValidPass
    \/ EpochEndHook
    \/ EpochEndHookRaises
    \/ EarlyStop
    \/ SaveAfterTraining
    \/ SaveAfterTrainingRaises

Spec == Init /\ [][Next]_vars

\* The control loop is one sequential thread: whatever step is next is taken.
FairSpec == Spec /\ WF_vars(Next)

\* ================================================================ claims
\* The least element of s; +infinity for the empty sequence.
RECURSIVE MinOf(_)
MinOf(s) == IF s = <<>> THEN Inf
            ELSE LET m == MinOf(Tail(s)) IN IF Head(s) < m THEN Head(s) ELSE m

\* The hook is registered and has been invoked at least once.
HookInvoked == args.save_checkpoint # <<>> /\ hookSeen # <<>>

\* Index of the first occurrence of the least element of a non-empty s.
FirstMinIndex(s) ==
    CHOOSE i \in 1..Len(s) :
        /\ \A j \in 1..Len(s) : s[i] <= s[j]
        /\ \A j \in 1..(i - 1) : s[j] > s[i]

\* Model and optimizer state live at the end of epoch i: TrainPass is their
\* only writer and runs once per epoch.
EpochWeights(i) == [model |-> i, optimizer |-> i]

\* C1: the hook's recorded lowest value starts at +infinity, never increases
\* from one invocation to the next, and after each invocation equals the
\* minimum of all the metric values the hook has seen.
C1_RunningMinimum ==
    /\ [](hookSeen = <<>> => lowest = Inf)
    /\ [](lowest = MinOf(hookSeen))
    /\ [][lowest' <= lowest]_vars

\* C1 witness: three invocations, an improvement at the second and a higher
\* value at the third.
C1_Witness ==
    /\ Len(hookSeen) = 3
    /\ hookSeen[2] < hookSeen[1]
    /\ hookSeen[3] > hookSeen[2]
    /\ lowest = hookSeen[2]

\* C2: an invocation of the hook writes the checkpoint file if and only if
\* the metric's value is strictly less than every value seen in earlier
\* invocations; on a tie or a greater value no file changes and nothing
\* raises.  (A write that raises counts as the write: it was attempted.)
C2_WriteIffStrictlyLower ==
    [][hookSeen' # hookSeen =>
         LET lower == \A i \in 1..Len(hookSeen) : meter < hookSeen[i]
         IN /\ lower <=> (\/ pc' = "crashed"
                          \/ /\ files'[filename_va] = Saved(StateDicts)
                             /\ files' # files)
            /\ ~lower => (files' = files /\ pc' = pc)
            /\ \A p \in Paths : p # filename_va => files'[p] = files[p]]_vars

\* C2 witness: the second invocation saw a tie with the first, and the file
\* still holds what the first invocation wrote.
C2_Witness ==
    /\ args.save_checkpoint # <<>>
    /\ Len(hookSeen) = 2
    /\ hookSeen[2] = hookSeen[1]
    /\ pc = "run"
    /\ files[filename_va] = Saved(EpochWeights(1))

\* C3: once the hook has been invoked, at every point of the run (the save
\* after training included) the best-checkpoint file holds the model and
\* optimizer state that were live at the end of the epoch where the lowest
\* metric value so far was first attained.  A run ends where the hook's own
\* torch.save raises.
C3_BestFileIsFirstMinimum ==
    /\ phase \in {"hooks", "end"} => StateDicts = EpochWeights(epochs)
    /\ (HookInvoked /\ ~(pc = "crashed" /\ phase = "hooks"))
          => files[filename_va] = Saved(EpochWeights(FirstMinIndex(hookSeen)))

\* C3 witness: the script is done; the lowest value came at epoch 2, was tied
\* at epoch 3, and the two files differ.
C3_Witness ==
    /\ pc = "done"
    /\ args.save_checkpoint # <<>>
    /\ Len(hookSeen) = 3
    /\ hookSeen[2] < hookSeen[1]
    /\ hookSeen[3] = hookSeen[2]
    /\ files[filename_va] = Saved(EpochWeights(2))
    /\ files[args.save_checkpoint] = Saved(EpochWeights(3))

\* ------------------------------------------------------ C4, C5: triggers
\* sum over w of (n * x - total)^2, which is n^2 * sum (x - mean)^2.
RECURSIVE SqDevAcc(_, _, _)
SqDevAcc(w, n, total) ==
    IF w = <<>> THEN 0
    ELSE (n * Head(w) - total) * (n * Head(w) - total)
         + SqDevAcc(Tail(w), n, total)

\* The sample standard deviation of the n = Len(w) >= 2 values of w is at
\* most t:  sum (x - mean)^2 / (n - 1) <= t^2, both sides times n^2 (n - 1).
SampleStdAtMost(w, t) ==
    SqDevAcc(w, Len(w), Sum(w)) <= t * t * Len(w) * Len(w) * (Len(w) - 1)

\* Both stability options were given, so the script installs the trigger.
StdConfigured ==
    args.valid_cer_std_window_size # 0 /\ args.valid_cer_std_threshold # 0

\* The composite has been evaluated for the latest metric value.
Evaluated == trigEvals > 0 /\ trigEvals = Len(cers)

\* 0.50, 0.20, 0.05, 0.04, 0.045
Scenario == <<500, 200, 50, 40, 45>>

\* C4: the stability trigger with window W and threshold T never fires while
\* fewer than W values have been observed; from then on it fires at an
\* evaluation iff the sample standard deviation of the W most recent values
\* is <= T.  With W = 3, T = 0.01 and the values 0.50, 0.20, 0.05, 0.04,
\* 0.045 it fires at 0.045 and not before.
C4_StabilityTrigger ==
    (StdConfigured /\ Evaluated) =>
        LET W == args.valid_cer_std_window_size
            T == args.valid_cer_std_threshold
            stdFired == "MeterStandardDeviation" \in fired
        IN /\ Len(cers) < W => ~stdFired
           /\ Len(cers) >= W =>
                 (stdFired <=> SampleStdAtMost(LastN(cers, W), T))
           /\ (/\ W = 3 /\ T = 10
               /\ Len(cers) <= Len(Scenario)
               /\ cers = SubSeq(Scenario, 1, Len(cers)))
                 => (stdFired <=> Len(cers) = Len(Scenario))

\* C4 witness: the scenario has run to its fifth value and the trigger fired.
C4_Witness ==
    /\ args.valid_cer_std_window_size = 3
    /\ args.valid_cer_std_threshold = 10
    /\ cers = Scenario
    /\ Evaluated
    /\ "MeterStandardDeviation" \in fired

\* The trigger fired with the standard deviation exactly at the threshold
\* (values 0.05, 0.04, 0.045: 0.005) and one more value would not have done.
C4_TieReached ==
    /\ args.valid_cer_std_window_size = 3
    /\ args.valid_cer_std_threshold = 5
    /\ LastN(cers, 3) = <<50, 40, 45>>
    /\ Evaluated
    /\ "MeterStandardDeviation" \in fired

\* C5: at every epoch-boundary evaluation the composite the script installs
\* fires (the engine stops) iff at least one of its members fires; with
\* max_epochs = N > 0 it fires at the evaluation of the first epoch at which
\* the completed-epoch counter reaches N, whatever the stability trigger
\* returns, so the counter never passes N.
C5_AnyTrigger ==
    /\ Evaluated =>
        LET N == args.max_epochs
            W == args.valid_cer_std_window_size
            T == args.valid_cer_std_threshold
            numFires == N > 0 /\ epochs >= N
            stdFires == /\ StdConfigured
                        /\ Len(cers) >= W
                        /\ SampleStdAtMost(LastN(cers, W), T)
        IN /\ state = "STOPPED" <=> (numFires \/ stdFires)
           /\ "NumEpochs" \in fired <=> numFires
           /\ (N > 0 /\ epochs = N) => state = "STOPPED"
    /\ args.max_epochs > 0 => epochs <= args.max_epochs

\* C5 witness: the epoch count alone stopped a run of two or more epochs on
\* which the stability trigger was installed and returned False.
C5_Witness ==
    /\ state = "STOPPED"
    /\ StdConfigured
    /\ Len(cers) >= args.valid_cer_std_window_size
    /\ fired = {"NumEpochs"}
    /\ epochs = args.max_epochs
    /\ epochs >= 2

\* --------------------------------------------------- C6: save at the end
\* save_checkpoint holds the current model and optimizer state.
FinalSaved ==
    /\ args.save_checkpoint # <<>>
    /\ files[args.save_checkpoint] = Saved(StateDicts)

\* C6 as stated: whenever the script has finished after the engine's run
\* ended, a record with the current model and optimizer state has been saved
\* beside the best-metric checkpoint.
C6_AlwaysSavedAtEnd ==
    pc = "done" =>
        \E p \in Paths : p # filename_va /\ files[p] = Saved(StateDicts)

\* C6 amended: provided --save_checkpoint is not empty, the script finishes
\* after the engine's run only by saving one record with the current model
\* and optimizer state to save_checkpoint, and once the engine has stopped
\* the script goes on to that save (or its torch.save raises).
C6_SavedAtEndIfConfigured ==
    /\ [](state = "STOPPED" => pc \in {"save", "done", "crashed"})
    /\ []((pc = "done" /\ args.save_checkpoint # <<>>) =>
            /\ state = "STOPPED"
            /\ files[args.save_checkpoint] = Saved(StateDicts))
    /\ [][(pc = "save" /\ pc' = "done" /\ args.save_checkpoint # <<>>) =>
            /\ files'[args.save_checkpoint] = Saved(StateDicts)
            /\ files'[filename_va] = files[filename_va]]_vars
    /\ (state = "STOPPED" /\ args.save_checkpoint # <<>>) ~>
            (pc = "crashed" \/ FinalSaved)

\* C6 witness: the script is done; the best checkpoint is from epoch 1 and
\* the record saved at the end is from epoch 2.
C6_Witness ==
    /\ pc = "done"
    /\ args.save_checkpoint # <<>>
    /\ epochs = 2
    /\ files[filename_va] = Saved(EpochWeights(1))
    /\ files[args.save_checkpoint] = Saved(EpochWeights(2))

\* ------------------------------------------------ C7, C8: the epoch loop
\* s is an initial segment of t.
IsPrefix(s, t) == Len(s) <= Len(t) /\ \A i \in 1..Len(s) : s[i] = t[i]

engine == <<state, phase, epochs, weights, meter, cers, lowest, hookSeen,
            hookIdx, window, fired, trigEvals>>

\* C8: the engine moves only along IDLE -> RUNNING -> (STOPPED | EXHAUSTED).
\* After each epoch's validation the composite is evaluated exactly once; if
\* it is true the engine enters STOPPED and nothing of the engine runs again
\* (no training or validation pass, hook or trigger evaluation); if it is
\* false the engine stays RUNNING and starts the next epoch.
C8_EngineStates ==
    /\ [](state \in {"IDLE", "RUNNING", "STOPPED", "EXHAUSTED"})
    /\ [](trigEvals <= epochs /\ epochs <= trigEvals + 1)
    /\ [](phase = "train" /\ state = "RUNNING" => trigEvals = epochs)
    /\ [][/\ state' # state =>
               \/ state = "IDLE" /\ state' = "RUNNING"
               \/ state = "RUNNING" /\ state' \in {"STOPPED", "EXHAUSTED"}
          /\ state \in {"STOPPED", "EXHAUSTED"} => UNCHANGED engine
          /\ trigEvals' # trigEvals =>
               /\ trigEvals' = trigEvals + 1
               /\ phase = "hooks"
               /\ fired' # {} => state' = "STOPPED"
               /\ fired' = {} => (state' = "RUNNING" /\ phase' = "train")
          /\ epochs' # epochs => (epochs' = epochs + 1 /\ trigEvals = epochs)
         ]_vars

\* C8 witness: two evaluations were false, the third was true and stopped
\* the engine, and the script has since finished.
C8_Witness ==
    /\ state = "STOPPED"
    /\ pc = "done"
    /\ trigEvals = 3
    /\ epochs = 3
    /\ fired # {}

\* ------------------------------------------------------ C9: exceptions
\* Some file holds a record that torch.save did not finish writing.
TruncatedFile == \E p \in Paths : files[p] # <<>> /\ ~files[p][1].complete

\* C9: an exception raised in an epoch-end hook (the checkpoint hook's save
\* failing) or in a training pass is not caught: the run ends at once with
\* nothing retried, no later epoch, hook or trigger evaluation, no save after
\* training, and not in normal completion.
C9_ExceptionsAreFatal ==
    /\ [](TruncatedFile => pc = "crashed")
    /\ []((pc = "crashed" /\ phase \in {"train", "hooks"}) =>
            /\ state = "RUNNING"
            /\ \A p \in Paths : p # filename_va => files[p] \in {Absent, Stale})
    /\ [][pc # "crashed"]_vars
    /\ [][pc' = "crashed" /\ phase = "hooks" =>
            /\ hookSeen' = Append(hookSeen, meter)
            /\ UNCHANGED <<state, phase, epochs, weights, cers, trigEvals,
                           hookIdx>>]_vars

\* C9 witness: the hook's save raised at the second epoch and left a
\* truncated best-checkpoint file; _lowest had already been lowered.
C9_Witness ==
    /\ pc = "crashed"
    /\ phase = "hooks"
    /\ epochs = 2
    /\ lowest = hookSeen[2]
    /\ lowest < hookSeen[1]
    /\ TruncatedFile

\* -------------------------------------------------- C10: termination
\* C10: with max_epochs = N > 0 every run halts (the composite stops the
\* engine, or an exception ends the run) and completes at most N epochs,
\* whatever the metric values and whether or not the stability trigger is
\* installed.
C10_HaltsWithinMaxEpochs ==
    /\ [](args.max_epochs > 0 => epochs <= args.max_epochs)
    /\ args.max_epochs > 0 => <>(state = "STOPPED" \/ pc = "crashed")
    /\ args.max_epochs > 0 => <>(pc \in {"done", "crashed"})

\* C10 witness: a run on which the stability trigger was installed and never
\* fired ran its N >= 3 epochs and the script finished.
C10_Witness ==
    /\ pc = "done"
    /\ StdConfigured
    /\ args.max_epochs >= 3
    /\ epochs = args.max_epochs
    /\ fired = {"NumEpochs"}

====
